---- MODULE Spec2Model ----
(***************************************************************************)
(* Model of radnn's experiment configuration module                        *)
(* (src/radnn/experiment/ml_experiment_config.py): the experiment-code     *)
(* codec (pure functions) and the MLExperimentConfig container (a dict     *)
(* with a filename attribute, loaded from and saved to JSON files).        *)
(*                                                                         *)
(* Python strings are TLA+ strings (Len, \o and SubSeq apply to them).     *)
(* Every other Python value is a tagged record, so that None, a string,    *)
(* an int, a tuple and a list are distinct values.                         *)
(***************************************************************************)
EXTENDS Integers, Sequences, FiniteSets, TLC

VARIABLES cfg, filename, fs, saved, op, call

vars == <<cfg, filename, fs, saved, op, call>>

(***************************************************************************)
(* Python values.                                                          *)
(***************************************************************************)
PyNone == [t |-> "none"]

PyStr(s) == [t |-> "str", s |-> s]

PyInt(n) == [t |-> "int", n |-> n]

PyTuple(xs) == [t |-> "tuple", xs |-> xs]

PyList(xs) == [t |-> "list", xs |-> xs]

(***************************************************************************)
(* String helpers: characters, decimal rendering, Python's int(text).      *)
(***************************************************************************)
CharAt(s, i) == SubSeq(s, i, i)

DecimalDigits == "0123456789"

IsDigit(c) == \E d \in 0..9 : CharAt(DecimalDigits, d + 1) = c

DigitVal(c) == CHOOSE d \in 0..9 : CharAt(DecimalDigits, d + 1) = c

RECURSIVE Dec(_)
\* Decimal rendering of a natural number, without padding.
Dec(n) ==
  IF n < 10 THEN CharAt(DecimalDigits, n + 1)
  ELSE Dec(n \div 10) \o CharAt(DecimalDigits, (n % 10) + 1)

\* Mutant of Fmt02d: the format spec d, which pads nothing.
Fmt02d_Unpadded(n) == IF n < 0 THEN "-" \o Dec(-n) ELSE Dec(n)

\* Python's format spec 02d: sign-aware zero fill to a minimum field width
\* of 2 characters; the minus sign counts in the width.
Fmt02d(n) ==
  IF n < 0 THEN "-" \o Dec(-n)
  ELSE IF n < 10 THEN "0" \o Dec(n)
  ELSE Dec(n)

AllDigits(s) == \A i \in 1..Len(s) : IsDigit(CharAt(s, i))

RECURSIVE DigitsValue(_)
DigitsValue(s) ==
  IF Len(s) = 0 THEN 0
  ELSE 10 * DigitsValue(SubSeq(s, 1, Len(s) - 1)) + DigitVal(CharAt(s, Len(s)))

\* int(text): an optional sign followed by one or more decimal digits;
\* anything else raises ValueError.
ParseInt(s) ==
  LET signed == Len(s) > 0 /\ CharAt(s, 1) \in {"-", "+"}
      body   == IF signed THEN SubSeq(s, 2, Len(s)) ELSE s
  IN  IF Len(body) > 0 /\ AllDigits(body)
      THEN [ok |-> TRUE,
            n  |-> IF signed /\ CharAt(s, 1) = "-"
                   THEN 0 - DigitsValue(body) ELSE DigitsValue(body)]
      ELSE [ok |-> FALSE, n |-> 0]

\* int(v) for a Python value: an int is itself, a string is parsed, None
\* raises TypeError.
IntOf(v) ==
  CASE v.t = "int" -> [ok |-> TRUE, n |-> v.n]
    [] v.t = "str" -> ParseInt(v.s)
    [] OTHER       -> [ok |-> FALSE, n |-> 0]

RECURSIVE JoinRepr(_)
RECURSIVE StrOf(_)
\* str(v), also what an f-string field renders.
StrOf(v) ==
  CASE v.t = "none"  -> "None"
    [] v.t = "str"   -> v.s
    [] v.t = "int"   -> IF v.n < 0 THEN "-" \o Dec(-v.n) ELSE Dec(v.n)
    [] v.t = "tuple" -> "(" \o JoinRepr(v.xs) \o ")"
    [] v.t = "list"  -> "[" \o JoinRepr(v.xs) \o "]"

JoinRepr(xs) ==
  IF Len(xs) = 0 THEN ""
  ELSE IF Len(xs) = 1 THEN StrOf(xs[1])
  ELSE StrOf(xs[1]) \o ", " \o JoinRepr(Tail(xs))

RECURSIVE SplitMax(_, _, _)
\* text.split(sep) and re.split(sep, text, maxsplit) for a one-character
\* separator: max < 0 splits at every separator, max >= 0 at the first max.
SplitMax(s, sep, max) ==
  LET hits == {i \in 1..Len(s) : CharAt(s, i) = sep}
  IN  IF max = 0 \/ hits = {} THEN <<s>>
      ELSE LET i == CHOOSE k \in hits : \A j \in hits : k <= j
           IN  <<SubSeq(s, 1, i - 1)>>
                 \o SplitMax(SubSeq(s, i + 1, Len(s)), sep,
                             IF max < 0 THEN max ELSE max - 1)

Split(s, sep) == SplitMax(s, sep, -1)

(***************************************************************************)
(* The codec.  A result is [raised, value]: raised names the error kind    *)
(* ("none" when the call returns).                                         *)
(***************************************************************************)
Returned(v) == [raised |-> "none", value |-> v]

Raised(kind) == [raised |-> kind, value |-> ""]

\* get_experiment_code_ex(base_name, number, variation, fold_number)
get_experiment_code_ex(base_name, number, variation, fold_number) ==
  IF base_name # PyNone /\ number # PyNone
  THEN LET nNumber     == IntOf(number)
           nFoldNumber == IF fold_number # PyNone THEN IntOf(fold_number)
                          ELSE [ok |-> TRUE, n |-> 0]
       IN  IF ~nNumber.ok \/ ~nFoldNumber.ok THEN Raised("TypeMismatch")
           ELSE Returned(
                  StrOf(base_name) \o "_" \o Fmt02d(nNumber.n)
                  \o (IF variation # PyNone THEN "." \o StrOf(variation) ELSE "")
                  \o (IF fold_number # PyNone
                      THEN "-" \o Fmt02d(nFoldNumber.n) ELSE ""))
  ELSE Raised("InvalidIdentity")

\* experiment_number_and_variation(experiment_code).  The result is
\* [raised, number, variation]; variation is PyNone or a PyStr.
NumberAndVariation(n, v) == [raised |-> "none", number |-> n, variation |-> v]

NumberAndVariationRaised(kind) ==
  [raised |-> kind, number |-> 0, variation |-> PyNone]

experiment_number_and_variation(experiment_code) ==
  IF experiment_code.t = "int"
  THEN NumberAndVariation(experiment_code.n, PyNone)
  ELSE LET sParts  == Split(experiment_code.s, ".")
           nNumber == ParseInt(sParts[1])
       IN  IF ~nNumber.ok THEN NumberAndVariationRaised("TypeMismatch")
           ELSE NumberAndVariation(
                  nNumber.n,
                  IF Len(sParts) > 1 THEN PyStr(sParts[2]) ELSE PyNone)

\* text[a:b], a Python slice: clipped to the text, never an error.
Slice(s, a, b) ==
  LET hi == IF b < Len(s) THEN b ELSE Len(s)
  IN  IF a >= hi THEN "" ELSE SubSeq(s, a + 1, hi)

\* os.path.split(filename)[1]: what follows the last "/".
PathTail(path) ==
  LET hits == {i \in 1..Len(path) : CharAt(path, i) = "/"}
  IN  IF hits = {} THEN path
      ELSE SubSeq(path, (CHOOSE k \in hits : \A j \in hits : j <= k) + 1,
                  Len(path))

\* os.path.splitext(name)[0]: the name up to its last dot; leading dots
\* start no extension.
SplitExtRoot(name) ==
  LET dots == {i \in 1..Len(name) : CharAt(name, i) = "."}
  IN  IF dots = {} THEN name
      ELSE LET i == CHOOSE k \in dots : \A j \in dots : j <= k
           IN  IF \A j \in 1..(i - 1) : CharAt(name, j) = "." THEN name
               ELSE SubSeq(name, 1, i - 1)

IsLeapYear(y) == (y % 4 = 0 /\ y % 100 # 0) \/ y % 400 = 0

DaysInMonth(y, m) ==
  IF m = 2 THEN (IF IsLeapYear(y) THEN 29 ELSE 28)
  ELSE IF m \in {4, 6, 9, 11} THEN 30 ELSE 31

\* datetime.fromisoformat(f"{date}T{hh}:{mm}:{ss}"): the date is YYYYMMDD
\* or YYYY-MM-DD, each time field is exactly two digits, and every field
\* is in its range; anything else raises ValueError.
FromIsoFormat(date, hh, mm, ss) ==
  LET basic    == Len(date) = 8 /\ AllDigits(date)
      extended == /\ Len(date) = 10
                  /\ CharAt(date, 5) = "-" /\ CharAt(date, 8) = "-"
                  /\ AllDigits(SubSeq(date, 1, 4))
                  /\ AllDigits(SubSeq(date, 6, 7))
                  /\ AllDigits(SubSeq(date, 9, 10))
      two(x)   == Len(x) = 2 /\ AllDigits(x)
      y  == DigitsValue(SubSeq(date, 1, 4))
      mo == DigitsValue(IF basic THEN SubSeq(date, 5, 6) ELSE SubSeq(date, 6, 7))
      d  == DigitsValue(IF basic THEN SubSeq(date, 7, 8) ELSE SubSeq(date, 9, 10))
  IN  IF /\ (basic \/ extended) /\ two(hh) /\ two(mm) /\ two(ss)
         /\ y >= 1 /\ mo \in 1..12 /\ d \in 1..DaysInMonth(y, mo)
         /\ DigitsValue(hh) <= 23 /\ DigitsValue(mm) <= 59
         /\ DigitsValue(ss) <= 59
      THEN [ok |-> TRUE, year |-> y, month |-> mo, day |-> d,
            hour |-> DigitsValue(hh), minute |-> DigitsValue(mm),
            second |-> DigitsValue(ss)]
      ELSE [ok |-> FALSE, year |-> 0, month |-> 0, day |-> 0,
            hour |-> 0, minute |-> 0, second |-> 0]

\* Mutant of SplitStem: re.split(r"_", sName), which splits at every
\* underscore.
SplitStem_EveryUnderscore(sName) == SplitMax(sName, "_", -1)

\* re.split(r"_", sName, 2)
SplitStem(sName) == SplitMax(sName, "_", 2)

\* experiment_code_and_timestamp(filename).  The result is
\* [raised, code, timestamp]; IndexError (a missing segment) and
\* ValueError (no valid timestamp) are the MalformedFilename kind.
experiment_code_and_timestamp(fname) ==
  LET sName  == SplitExtRoot(PathTail(fname))
      sParts == SplitStem(sName)
      none   == FromIsoFormat("", "", "", "")
  IN  IF Len(sParts) < 3
      THEN [raised |-> "MalformedFilename", code |-> "", timestamp |-> none]
      ELSE LET dRunTimestamp ==
                 FromIsoFormat(sParts[1], Slice(sParts[2], 0, 2),
                               Slice(sParts[2], 2, 4), Slice(sParts[2], 4, 6))
           IN  IF ~dRunTimestamp.ok
               THEN [raised |-> "MalformedFilename", code |-> "",
                     timestamp |-> none]
               ELSE [raised |-> "none", code |-> sParts[3],
                     timestamp |-> dRunTimestamp]

\* get_experiment_code(config_dict): the code of a mapping; it looks at
\* whether the keys are in the mapping, not at their values.
get_experiment_code(config_dict) ==
  IF "Experiment.BaseName" \in DOMAIN config_dict
     /\ "Experiment.Number" \in DOMAIN config_dict
  THEN LET hasVariation == "Experiment.Variation" \in DOMAIN config_dict
           hasFold      == "Experiment.FoldNumber" \in DOMAIN config_dict
           nNumber      == IntOf(config_dict["Experiment.Number"])
           nFoldNumber  == IF hasFold
                           THEN IntOf(config_dict["Experiment.FoldNumber"])
                           ELSE [ok |-> TRUE, n |-> 0]
       IN  IF ~nNumber.ok \/ ~nFoldNumber.ok THEN Raised("TypeMismatch")
           ELSE Returned(
                  StrOf(config_dict["Experiment.BaseName"]) \o "_"
                  \o Fmt02d(nNumber.n)
                  \o (IF hasVariation
                      THEN "." \o StrOf(config_dict["Experiment.Variation"])
                      ELSE "")
                  \o (IF hasFold THEN "-" \o Fmt02d(nFoldNumber.n) ELSE ""))
  ELSE Raised("InvalidIdentity")

(***************************************************************************)
(* JSON.  json.dumps turns the dict into a JSON object and json.loads      *)
(* turns the object back into a dict.  A tuple and a list are both written *)
(* as an array, and an array is read back as a list.                       *)
(***************************************************************************)
RECURSIVE ToJson(_)
RECURSIVE ToJsonSeq(_)
ToJson(v) ==
  CASE v.t = "none" -> [j |-> "null"]
    [] v.t = "str"  -> [j |-> "string", s |-> v.s]
    [] v.t = "int"  -> [j |-> "number", n |-> v.n]
    [] OTHER        -> [j |-> "array", xs |-> ToJsonSeq(v.xs)]

ToJsonSeq(xs) ==
  IF Len(xs) = 0 THEN <<>> ELSE <<ToJson(Head(xs))>> \o ToJsonSeq(Tail(xs))

RECURSIVE FromJson(_)
RECURSIVE FromJsonSeq(_)
FromJson(x) ==
  CASE x.j = "null"   -> PyNone
    [] x.j = "string" -> PyStr(x.s)
    [] x.j = "number" -> PyInt(x.n)
    [] OTHER          -> PyList(FromJsonSeq(x.xs))

FromJsonSeq(xs) ==
  IF Len(xs) = 0 THEN <<>> ELSE <<FromJson(Head(xs))>> \o FromJsonSeq(Tail(xs))

\* json.dumps(self, ...)
json_dumps(d) == [k \in DOMAIN d |-> ToJson(d[k])]

\* json.loads(sConfig)
json_loads(doc) == [k \in DOMAIN doc |-> FromJson(doc[k])]

(***************************************************************************)
(* The container: cfg is the dict, filename its attribute, fs the files.   *)
(***************************************************************************)
\* self[key] = value
SetItem(d, key, value) ==
  [k \in DOMAIN d \cup {key} |-> IF k = key THEN value ELSE d[k]]

\* for sKey in other.keys(): self[sKey] = other[sKey]
CopyKeys(d, other) ==
  [k \in DOMAIN d \cup DOMAIN other |->
     IF k \in DOMAIN other THEN other[k] ELSE d[k]]

NoFile == [exists |-> FALSE]

FileWith(doc) == [exists |-> TRUE, doc |-> doc]

\* An outcome of a method on the dict: the error kind raised ("none" when
\* it returns) and the dict as the method leaves it.
Outcome(kind, d) == [raised |-> kind, cfg |-> d]

\* Mutant of load: must_exist is ignored, a missing file never raises.
load_IgnoresMustExist(d, stored, fname, must_exist, files) ==
  LET target == IF fname = PyNone THEN stored ELSE fname
  IN  IF target = PyNone THEN Outcome("TypeMismatch", d)
      ELSE IF files[target.s].exists
           THEN Outcome("none", CopyKeys(d, json_loads(files[target.s].doc)))
           ELSE Outcome("none", d)

\* Mutant of load: a key the dict already holds keeps its value
\* (setdefault instead of assignment).
load_KeepsExistingKeys(d, stored, fname, must_exist, files) ==
  LET target == IF fname = PyNone THEN stored ELSE fname
  IN  IF target = PyNone THEN Outcome("TypeMismatch", d)
      ELSE IF files[target.s].exists
           THEN Outcome("none", CopyKeys(json_loads(files[target.s].doc), d))
           ELSE IF must_exist THEN Outcome("ConfigNotFound", d)
                ELSE Outcome("none", d)

\* load(self, filename, must_exist) on dict d whose attribute is stored,
\* with the files as in files.
load(d, stored, fname, must_exist, files) ==
  LET target == IF fname = PyNone THEN stored ELSE fname
  IN  IF target = PyNone THEN Outcome("TypeMismatch", d)
      ELSE IF files[target.s].exists
           THEN Outcome("none", CopyKeys(d, json_loads(files[target.s].doc)))
           ELSE IF must_exist THEN Outcome("ConfigNotFound", d)
                ELSE Outcome("none", d)

\* Mutant of assign: the suffix is appended only when the base name does
\* not end with it yet.
assign_AppendOnce(d, config_dict) ==
  LET copied    == CopyKeys(d, config_dict)
      defaulted ==
        IF copied["Experiment.BaseName"] = PyNone
           /\ "ModelName" \in DOMAIN config_dict
        THEN SetItem(copied, "Experiment.BaseName", config_dict["ModelName"])
        ELSE copied
      base      == defaulted["Experiment.BaseName"].s
      suffix    == "_" \o config_dict["DatasetName"].s
  IN  IF "DatasetName" \in DOMAIN config_dict
      THEN IF defaulted["Experiment.BaseName"].t = "str"
              /\ config_dict["DatasetName"].t = "str"
           THEN IF Len(base) >= Len(suffix)
                   /\ SubSeq(base, Len(base) - Len(suffix) + 1, Len(base)) = suffix
                THEN Outcome("none", defaulted)
                ELSE Outcome("none",
                       SetItem(defaulted, "Experiment.BaseName",
                               PyStr(base \o suffix)))
           ELSE Outcome("TypeMismatch", defaulted)
      ELSE Outcome("none", defaulted)

\* Mutant of assign: ModelName replaces the base name whenever it is given.
assign_ModelNameAlways(d, config_dict) ==
  LET copied    == CopyKeys(d, config_dict)
      defaulted ==
        IF "ModelName" \in DOMAIN config_dict
        THEN SetItem(copied, "Experiment.BaseName", config_dict["ModelName"])
        ELSE copied
  IN  IF "DatasetName" \in DOMAIN config_dict
      THEN IF defaulted["Experiment.BaseName"].t = "str"
              /\ config_dict["DatasetName"].t = "str"
           THEN Outcome("none",
                  SetItem(defaulted, "Experiment.BaseName",
                          PyStr(defaulted["Experiment.BaseName"].s \o "_"
                                \o config_dict["DatasetName"].s)))
           ELSE Outcome("TypeMismatch", defaulted)
      ELSE Outcome("none", defaulted)

\* Mutant of assign: a failed merge leaves the dict as it was.
assign_Atomic(d, config_dict) ==
  LET copied    == CopyKeys(d, config_dict)
      defaulted ==
        IF copied["Experiment.BaseName"] = PyNone
           /\ "ModelName" \in DOMAIN config_dict
        THEN SetItem(copied, "Experiment.BaseName", config_dict["ModelName"])
        ELSE copied
  IN  IF "DatasetName" \in DOMAIN config_dict
      THEN IF defaulted["Experiment.BaseName"].t = "str"
              /\ config_dict["DatasetName"].t = "str"
           THEN Outcome("none",
                  SetItem(defaulted, "Experiment.BaseName",
                          PyStr(defaulted["Experiment.BaseName"].s \o "_"
                                \o config_dict["DatasetName"].s)))
           ELSE Outcome("TypeMismatch", d)
      ELSE Outcome("none", defaulted)

\* assign(self, config_dict)
assign(d, config_dict) ==
  LET copied    == CopyKeys(d, config_dict)
      defaulted ==
        IF copied["Experiment.BaseName"] = PyNone
           /\ "ModelName" \in DOMAIN config_dict
        THEN SetItem(copied, "Experiment.BaseName", config_dict["ModelName"])
        ELSE copied
  IN  IF "DatasetName" \in DOMAIN config_dict
      THEN IF defaulted["Experiment.BaseName"].t = "str"
              /\ config_dict["DatasetName"].t = "str"
           THEN Outcome("none",
                  SetItem(defaulted, "Experiment.BaseName",
                          PyStr(defaulted["Experiment.BaseName"].s \o "_"
                                \o config_dict["DatasetName"].s)))
           ELSE Outcome("TypeMismatch", defaulted)
      ELSE Outcome("none", defaulted)

PyDict(d) == [t |-> "dict", d |-> d]

\* Mutant of construct: the file is loaded after the arguments are stored,
\* so that the file's values win.
construct_LoadsLast(fname, base_name, number, variation, fold_number, hyperparams, files) ==
  LET fresh    == [k \in {"Experiment.BaseName"} |-> base_name]
      numbered == IF number # PyNone
                  THEN SetItem(fresh, "Experiment.Number", number)
                  ELSE fresh
      varied   == IF variation # PyNone
                  THEN SetItem(numbered, "Experiment.Variation", variation)
                  ELSE numbered
      folded   == IF fold_number # PyNone
                  THEN SetItem(varied, "Experiment.FoldNumber", fold_number)
                  ELSE varied
      loaded   == IF fname # PyNone
                  THEN load(folded, fname, PyNone, FALSE, files).cfg
                  ELSE folded
  IN  IF hyperparams # PyNone THEN assign(loaded, hyperparams.d)
      ELSE Outcome("none", loaded)

\* __init__(self, filename, base_name, number, variation, fold_number,
\* hyperparams)
construct(fname, base_name, number, variation, fold_number, hyperparams, files) ==
  LET fresh    == [k \in {"Experiment.BaseName"} |-> base_name]
      loaded   == IF fname # PyNone
                  THEN load(fresh, fname, PyNone, FALSE, files).cfg
                  ELSE fresh
      numbered == IF number # PyNone
                  THEN SetItem(loaded, "Experiment.Number", number)
                  ELSE loaded
      varied   == IF variation # PyNone
                  THEN SetItem(numbered, "Experiment.Variation", variation)
                  ELSE numbered
      folded   == IF fold_number # PyNone
                  THEN SetItem(varied, "Experiment.FoldNumber", fold_number)
                  ELSE varied
  IN  IF hyperparams # PyNone THEN assign(folded, hyperparams.d)
      ELSE Outcome("none", folded)

(***************************************************************************)
(* Inputs.                                                                 *)
(***************************************************************************)
MaxBaseLen == 6

MaxNumber == 12

SavePaths == {"run.json"}

Paths == SavePaths \cup {"absent.json"}

BaseNames == {PyNone, PyStr("M")}

Numbers == {PyNone, PyInt(1), PyInt(2)}

Variations == {PyNone, PyStr("a"), PyStr("b")}

FoldNumbers == {PyNone, PyInt(2)}

\* The mappings with the keys in keys, each key k with a value of vals[k].
MappingsOver(vals) ==
  UNION {[ks -> UNION {vals[k] : k \in ks}] : ks \in SUBSET DOMAIN vals}

Mappings(vals) == {m \in MappingsOver(vals) : \A k \in DOMAIN m : m[k] \in vals[k]}

\* Hyperparameters merged into a container that is also saved and loaded.
FileHyperParams ==
  {[k \in {"InputShape"} |-> PyTuple(<<PyInt(2), PyInt(2)>>)]}

\* Hyperparameters merged into a container kept in memory.
HyperParams ==
  Mappings([ModelName |-> {PyStr("N")},
            DatasetName |-> {PyStr("D")},
            Epochs |-> {PyInt(5)}]
           @@ ("Experiment.BaseName" :> {PyNone, PyStr("B")}))

(***************************************************************************)
(* The state: a container (cfg, filename), the files (fs), for each file   *)
(* the dict that save last wrote to it (saved), the last call on the       *)
(* container (op) and the last call of a codec function (call).            *)
(***************************************************************************)
Call(name, args, raised, returns) ==
  [name |-> name, args |-> args, raised |-> raised, returns |-> returns]

\* A configuration file written by hand before the program runs: it names
\* a number and a variation and no base name.
HandWritten ==
  FileWith([k \in {"Experiment.Number", "Experiment.Variation"} |->
              IF k = "Experiment.Number" THEN [j |-> "number", n |-> 1]
              ELSE [j |-> "string", s |-> "b"]])

NotSaved == [exists |-> FALSE]

SavedDict(d) == [exists |-> TRUE, d |-> d]

InitContainer ==
  /\ cfg = construct(PyNone, PyNone, PyNone, PyNone, PyNone, PyNone,
                     [p \in Paths |-> NoFile]).cfg
  /\ filename = PyNone
  /\ saved = [p \in Paths |-> NotSaved]
  /\ op = Call("construct",
               [filename |-> PyNone, base_name |-> PyNone, number |-> PyNone,
                variation |-> PyNone, fold_number |-> PyNone,
                hyperparams |-> PyNone], "none", "self")

Init ==
  /\ InitContainer
  /\ fs \in {[p \in Paths |-> NoFile],
              [p \in Paths |-> IF p \in SavePaths THEN HandWritten ELSE NoFile]}
  /\ call = [fn |-> "none"]

\* The length of the base name of dict d (0 when it is not a string).
BaseLen(d) ==
  IF d["Experiment.BaseName"].t = "str"
  THEN Len(d["Experiment.BaseName"].s) ELSE 0

\* c = MLExperimentConfig(...): a new container replaces the old one; when
\* __init__ raises there is no new container and the old one stays.
Constructed(fname, base_name, number, variation, fold_number, hyperparams) ==
  LET r == construct(fname, base_name, number, variation, fold_number,
                     hyperparams, fs)
  IN  /\ BaseLen(r.cfg) <= MaxBaseLen
      /\ cfg' = IF r.raised = "none" THEN r.cfg ELSE cfg
      /\ filename' = IF r.raised = "none" THEN fname ELSE filename
      /\ op' = Call("construct",
                    [filename |-> fname, base_name |-> base_name,
                     number |-> number, variation |-> variation,
                     fold_number |-> fold_number, hyperparams |-> hyperparams],
                    r.raised, IF r.raised = "none" THEN "self" ELSE "")
      /\ UNCHANGED <<fs, saved, call>>

\* c.load(filename, must_exist)
Loaded(fname, must_exist) ==
  LET r == load(cfg, filename, fname, must_exist, fs)
  IN  /\ cfg' = r.cfg
      /\ op' = Call("load", [filename |-> fname, must_exist |-> must_exist],
                    r.raised, IF r.raised = "none" THEN "self" ELSE "")
      /\ UNCHANGED <<filename, fs, saved, call>>

\* c.assign(config_dict)
Assigned(config_dict) ==
  LET r == assign(cfg, config_dict)
  IN  /\ BaseLen(r.cfg) <= MaxBaseLen
      /\ cfg' = r.cfg
      /\ op' = Call("assign", [config_dict |-> config_dict],
                    r.raised, IF r.raised = "none" THEN "self" ELSE "")
      /\ UNCHANGED <<filename, fs, saved, call>>

\* c.save(filename): open(None, "w") raises TypeError when no filename was
\* given and none is stored.
Saved(fname) ==
  LET target == IF fname # PyNone THEN fname ELSE filename
  IN  /\ filename' = target
      /\ fs' = IF target = PyNone THEN fs
               ELSE [fs EXCEPT ![target.s] = FileWith(json_dumps(cfg))]
      /\ saved' = IF target = PyNone THEN saved
                  ELSE [saved EXCEPT ![target.s] = SavedDict(cfg)]
      /\ op' = Call("save", [filename |-> fname],
                    IF target = PyNone THEN "TypeMismatch" ELSE "none",
                    IF target = PyNone THEN "" ELSE "self")
      /\ UNCHANGED <<cfg, call>>

\* c.experiment_code
ExperimentCode ==
  LET r == get_experiment_code(cfg)
  IN  /\ op' = Call("experiment_code", <<>>, r.raised, r.value)
      /\ UNCHANGED <<cfg, filename, fs, saved, call>>

(***************************************************************************)
(* Spec: a container that is constructed (from a file or not), loaded,     *)
(* saved and read, over one file that may exist and one that never does.   *)
(***************************************************************************)
Construct ==
  \E fname \in {PyNone} \cup {PyStr(p) : p \in SavePaths}, base_name \in BaseNames,
     number \in Numbers, variation \in Variations, fold_number \in FoldNumbers :
    Constructed(fname, base_name, number, variation, fold_number, PyNone)

Load ==
  \E fname \in {PyNone} \cup {PyStr(p) : p \in Paths}, must_exist \in BOOLEAN :
    Loaded(fname, must_exist)

Save == \E fname \in {PyNone} \cup {PyStr(p) : p \in SavePaths} : Saved(fname)

Next == Construct \/ Load \/ Save \/ ExperimentCode

Spec == Init /\ [][Next]_vars

(***************************************************************************)
(* SpecRoundTrip: a container that is constructed, merged into, saved,     *)
(* and loaded again into a fresh container.                                *)
(***************************************************************************)
ConstructFresh ==
  \E fname \in {PyNone} \cup {PyStr(p) : p \in SavePaths},
     base_name \in BaseNames, number \in {PyNone, PyInt(1)} :
    Constructed(fname, base_name, number, PyNone, PyNone, PyNone)

LoadFile ==
  \E fname \in {PyNone} \cup {PyStr(p) : p \in Paths}, must_exist \in BOOLEAN :
    Loaded(fname, must_exist)

AssignShape == \E config_dict \in FileHyperParams : Assigned(config_dict)

SaveFile ==
  \E fname \in {PyNone} \cup {PyStr(p) : p \in SavePaths} : Saved(fname)

NextRoundTrip ==
  ConstructFresh \/ LoadFile \/ AssignShape \/ SaveFile \/ ExperimentCode

SpecRoundTrip == Init /\ [][NextRoundTrip]_vars

(***************************************************************************)
(* SpecMerge: a container kept in memory, constructed with and without     *)
(* hyperparameters and merged into.                                        *)
(***************************************************************************)
ConstructInMemory ==
  \E base_name \in BaseNames, number \in {PyNone, PyInt(1)},
     hyperparams \in {PyNone} \cup {PyDict(m) : m \in HyperParams} :
    Constructed(PyNone, base_name, number, PyNone, PyNone, hyperparams)

Merge == \E config_dict \in HyperParams : Assigned(config_dict)

NextMerge == ConstructInMemory \/ Merge \/ ExperimentCode

SpecMerge == Init /\ [][NextMerge]_vars

(***************************************************************************)
(* SpecCodec: the codec functions, each applied to inputs drawn from       *)
(* small sets.                                                             *)
(***************************************************************************)
CodecNumbers == (0 - MaxNumber)..MaxNumber \cup {99, 100, 123}

CodecBaseNames == {PyNone, PyStr("Model"), PyStr("M_D")}

CodecVariations == {PyNone, PyStr("b"), PyStr("alt"), PyStr(""), PyStr("a.b")}

CodecFoldNumbers == {PyNone, PyInt(0 - 2), PyInt(2), PyInt(10), PyInt(123)}

\* Filenames {date}_{time}_{code}{ext} in a directory or not, and names with
\* fewer segments.
Filenames ==
  {dir \o date \o "_" \o time \o "_" \o code \o ext :
     dir \in {"", "runs/2024_01/"},
     date \in {"20240115", "2024-02-29", "20230229", "240115"},
     time \in {"093000", "235959", "0930", "250000", "09300012"},
     code \in {"Model_03", "Model_03.b-02", "M_D_E_12", "Model"},
     ext \in {".json", ""}}
  \cup {"20240115_093000.json", "20240115.json", "runs/a_b/Model.json",
        "20240115_093000_.json", ".json"}

\* A call of a codec function that has not run yet.
Pending(fn, args) ==
  [fn |-> fn, args |-> args, done |-> FALSE, result |-> [raised |-> "pending"]]

\* The text N or N.V of a number and a variation, N as encode renders it.
CodeText(n, v) == Fmt02d(n) \o (IF v # PyNone THEN "." \o v.s ELSE "")

EncodeCalls ==
  {Pending("encode", [base_name |-> b, number |-> n, variation |-> v,
                      fold_number |-> k]) :
     b \in CodecBaseNames,
     n \in {PyNone, PyStr("7"), PyStr("x")} \cup {PyInt(i) : i \in CodecNumbers},
     v \in CodecVariations, k \in CodecFoldNumbers}

DecodeTextCalls ==
  {Pending("decode_text", [number |-> n, variation |-> v,
                           code |-> PyStr(CodeText(n, v))]) :
     n \in CodecNumbers, v \in CodecVariations}

DecodeIntegerCalls ==
  {Pending("decode_integer", [number |-> n, variation |-> PyNone,
                              code |-> PyInt(n)]) : n \in CodecNumbers}

DecodeFilenameCalls ==
  {Pending("decode_filename", [filename |-> f]) : f \in Filenames}

InitCodec ==
  /\ InitContainer
  /\ fs = [p \in Paths |-> NoFile]
  /\ call \in EncodeCalls \cup DecodeTextCalls \cup DecodeIntegerCalls
               \cup DecodeFilenameCalls

Finish(result) ==
  /\ ~call.done
  /\ call' = [call EXCEPT !.done = TRUE, !.result = result]
  /\ UNCHANGED <<cfg, filename, fs, saved, op>>

Encode ==
  /\ call.fn = "encode"
  /\ Finish(get_experiment_code_ex(call.args.base_name, call.args.number,
                                   call.args.variation, call.args.fold_number))

DecodeText ==
  /\ call.fn = "decode_text"
  /\ Finish(experiment_number_and_variation(call.args.code))

DecodeInteger ==
  /\ call.fn = "decode_integer"
  /\ Finish(experiment_number_and_variation(call.args.code))

DecodeFilename ==
  /\ call.fn = "decode_filename"
  /\ Finish(experiment_code_and_timestamp(call.args.filename))

NextCodec == Encode \/ DecodeText \/ DecodeInteger \/ DecodeFilename

SpecCodec == InitCodec /\ [][NextCodec]_vars

(***************************************************************************)
(* The claims.  A claim about what a call does to the container is an      *)
(* action property: unprimed variables are the container before the call,  *)
(* primed ones the container after it, and op' is the call.                *)
(***************************************************************************)
\* The base name assign leaves after copying m into d and defaulting it
\* from ModelName, before any suffix is appended.
BaseAfterDefaulting(d, m) ==
  LET copied == IF "Experiment.BaseName" \in DOMAIN m
                THEN m["Experiment.BaseName"] ELSE d["Experiment.BaseName"]
  IN  IF copied = PyNone /\ "ModelName" \in DOMAIN m THEN m["ModelName"]
      ELSE copied

\* C1, as stated: after assign(m) with DatasetName in m, the base name is
\* the base name the container held before the call, followed by "_" and
\* m[DatasetName].
C1_AppendsToPreviousBaseName ==
  [][(op'.name = "assign" /\ "DatasetName" \in DOMAIN op'.args.config_dict)
       => /\ op'.raised = "none"
          /\ cfg["Experiment.BaseName"].t = "str"
          /\ cfg'["Experiment.BaseName"]
               = PyStr(cfg["Experiment.BaseName"].s \o "_"
                       \o op'.args.config_dict["DatasetName"].s)]_vars

\* C1, amended: when the container holds a string base name and m has
\* DatasetName and no Experiment.BaseName of its own, assign(m) returns and
\* the base name is the one held before the call followed by "_" and
\* m[DatasetName]; so every further such call appends the suffix again.
C1_AppendsWhenBaseNameKept ==
  [][(/\ op'.name = "assign"
      /\ "DatasetName" \in DOMAIN op'.args.config_dict
      /\ "Experiment.BaseName" \notin DOMAIN op'.args.config_dict
      /\ cfg["Experiment.BaseName"].t = "str")
       => /\ op'.raised = "none"
          /\ cfg'["Experiment.BaseName"]
               = PyStr(cfg["Experiment.BaseName"].s \o "_"
                       \o op'.args.config_dict["DatasetName"].s)]_vars

\* C1 witness: base_name "M" after assign({DatasetName: "D"}) twice.
C1_AppendedTwice ==
  /\ op.name = "assign" /\ op.raised = "none"
  /\ DOMAIN op.args.config_dict = {"DatasetName"}
  /\ cfg["Experiment.BaseName"] = PyStr("M_D_D")

\* C2: reading experiment_code raises InvalidIdentity whenever the base
\* name is unset or null or the number is unset.
C2_MissingIdentityRaises ==
  op.name = "experiment_code"
    => ((\/ "Experiment.BaseName" \notin DOMAIN cfg
         \/ cfg["Experiment.BaseName"] = PyNone
         \/ "Experiment.Number" \notin DOMAIN cfg)
        => op.raised = "InvalidIdentity")

\* The path a load call targets: its argument, or else the stored filename.
LoadTarget(stored, args) ==
  IF args.filename = PyNone THEN stored ELSE args.filename

\* C3: load of a path that does not exist raises ConfigNotFound when
\* must_exist is true, and otherwise returns the container, its mapping and
\* its stored filename unchanged.
C3_LoadOfMissingPath ==
  [][(/\ op'.name = "load"
      /\ LoadTarget(filename, op'.args) # PyNone
      /\ ~fs[LoadTarget(filename, op'.args).s].exists)
       => IF op'.args.must_exist THEN op'.raised = "ConfigNotFound"
          ELSE /\ op'.raised = "none" /\ op'.returns = "self"
               /\ cfg' = cfg /\ filename' = filename]_vars

\* C3 witness: a container with a number, loaded from another file, after
\* load("absent.json") returned.
C3_MissingLoadWasNoOp ==
  /\ op.name = "load" /\ op.raised = "none"
  /\ op.args = [filename |-> PyStr("absent.json"), must_exist |-> FALSE]
  /\ ~fs["absent.json"].exists
  /\ filename = PyStr("run.json")
  /\ "Experiment.Number" \in DOMAIN cfg

RECURSIVE IsJsonNative(_)
\* None, strings, ints and lists of them are what JSON holds as they are.
IsJsonNative(v) ==
  \/ v.t \in {"none", "str", "int"}
  \/ v.t = "list" /\ \A i \in 1..Len(v.xs) : IsJsonNative(v.xs[i])

AllJsonNative(d) == \A k \in DOMAIN d : IsJsonNative(d[k])

OnlyFilename(fname) ==
  [filename |-> fname, base_name |-> PyNone, number |-> PyNone,
   variation |-> PyNone, fold_number |-> PyNone, hyperparams |-> PyNone]

\* C4: after save(path) of a container whose values are JSON-native, a
\* fresh container constructed with only that filename, or constructed
\* empty and then loaded from that path, holds the saved mapping.
C4_SaveThenLoadRoundTrip ==
  [][\A p \in Paths :
       /\ (/\ op'.name = "construct" /\ op'.raised = "none"
           /\ op'.args = OnlyFilename(PyStr(p))
           /\ saved'[p].exists /\ AllJsonNative(saved'[p].d))
            => cfg' = saved'[p].d
       /\ (/\ op.name = "construct" /\ op.raised = "none"
           /\ op.args = OnlyFilename(PyNone)
           /\ op'.name = "load" /\ op'.args.filename = PyStr(p)
           /\ saved[p].exists /\ AllJsonNative(saved[p].d))
            => cfg' = saved[p].d]_vars

\* C4 witness: a fresh container constructed from the file of a saved
\* container with a base name, a number and a list-valued hyperparameter.
C4_FreshContainerEqualsSaved ==
  /\ op.name = "construct" /\ op.args = OnlyFilename(PyStr("run.json"))
  /\ saved["run.json"].exists /\ AllJsonNative(saved["run.json"].d)
  /\ cfg = saved["run.json"].d
  /\ cfg["Experiment.BaseName"] = PyStr("M")
  /\ "Experiment.Number" \in DOMAIN cfg
  /\ "InputShape" \in DOMAIN cfg

\* C5: after construct(filename=f, base_name, number, variation,
\* fold_number) with f an existing file, the base name is the file's if the
\* file defines it and the argument otherwise; number, variation and fold
\* number are each the argument when it is given and otherwise the file's.
C5_ConstructionOrder ==
  (/\ op.name = "construct" /\ op.raised = "none"
   /\ op.args.filename # PyNone /\ op.args.hyperparams = PyNone
   /\ fs[op.args.filename.s].exists)
    => LET doc == fs[op.args.filename.s].doc
           ArgThenFile(key, arg) ==
             IF arg # PyNone THEN key \in DOMAIN cfg /\ cfg[key] = arg
             ELSE IF key \in DOMAIN doc
                  THEN key \in DOMAIN cfg /\ cfg[key] = FromJson(doc[key])
                  ELSE key \notin DOMAIN cfg
       IN  /\ cfg["Experiment.BaseName"]
                = IF "Experiment.BaseName" \in DOMAIN doc
                  THEN FromJson(doc["Experiment.BaseName"])
                  ELSE op.args.base_name
           /\ ArgThenFile("Experiment.Number", op.args.number)
           /\ ArgThenFile("Experiment.Variation", op.args.variation)
           /\ ArgThenFile("Experiment.FoldNumber", op.args.fold_number)

\* C5 witness: the file names number 1 and variation "b" and no base name;
\* the arguments give base name "M", number 2 and fold number 2.
C5_ArgumentsOverrideFile ==
  /\ op.name = "construct" /\ op.raised = "none"
  /\ fs["run.json"] = HandWritten
  /\ op.args = [filename |-> PyStr("run.json"), base_name |-> PyStr("M"),
                number |-> PyInt(2), variation |-> PyNone,
                fold_number |-> PyInt(2), hyperparams |-> PyNone]
  /\ cfg["Experiment.BaseName"] = PyStr("M")
  /\ cfg["Experiment.Number"] = PyInt(2)
  /\ cfg["Experiment.Variation"] = PyStr("b")
  /\ cfg["Experiment.FoldNumber"] = PyInt(2)

\* An integer zero-padded to at least 2 digits, a negative one behind its
\* sign.
TwoDigits(n) ==
  LET digits(k) == IF k < 10 THEN "0" \o Dec(k) ELSE Dec(k)
  IN  IF n < 0 THEN "-" \o digits(0 - n) ELSE digits(n)

\* An integer zero-padded to a field of at least 2 characters, the sign of
\* a negative one counting as a character.
TwoCharacters(n) ==
  IF n < 0 THEN "-" \o Dec(0 - n)
  ELSE IF n < 10 THEN "0" \o Dec(n) ELSE Dec(n)

\* What encode is to return for arguments a, given its number rendered as
\* number and its fold number, if any, as fold.
EncodedAs(a, number, fold) ==
  a.base_name.s \o "_" \o number
  \o (IF a.variation # PyNone THEN "." \o a.variation.s ELSE "")
  \o (IF a.fold_number # PyNone THEN "-" \o fold ELSE "")

EncodeOfIntegers ==
  /\ call.fn = "encode" /\ call.done
  /\ call.args.base_name # PyNone /\ call.args.number.t = "int"
  /\ call.args.fold_number.t \in {"none", "int"}

EncodeOfAbsent ==
  /\ call.fn = "encode" /\ call.done
  /\ (call.args.base_name = PyNone \/ call.args.number = PyNone)

\* C6, as stated: encode returns base_name, "_", the number zero-padded to
\* at least 2 digits, then "." and the variation iff there is one, then "-"
\* and the fold number zero-padded to at least 2 digits iff there is one;
\* it raises InvalidIdentity when base_name or number is absent.
C6_EncodePadsToTwoDigits ==
  /\ EncodeOfIntegers
       => call.result
            = Returned(EncodedAs(call.args, TwoDigits(call.args.number.n),
                                 IF call.args.fold_number # PyNone
                                 THEN TwoDigits(call.args.fold_number.n)
                                 ELSE ""))
  /\ EncodeOfAbsent => call.result = Raised("InvalidIdentity")

\* C6, amended: as stated, with the number and the fold number zero-padded
\* to a field of at least 2 characters in which a minus sign counts, so
\* that a number of -9..-1 has one digit ("-3").
C6_EncodePadsToTwoCharacters ==
  /\ EncodeOfIntegers
       => call.result
            = Returned(EncodedAs(call.args, TwoCharacters(call.args.number.n),
                                 IF call.args.fold_number # PyNone
                                 THEN TwoCharacters(call.args.fold_number.n)
                                 ELSE ""))
  /\ EncodeOfAbsent => call.result = Raised("InvalidIdentity")

\* C6 witness: encode("Model", 3, "b", 2) = "Model_03.b-02".
C6_EncodedModel03b02 ==
  /\ call.fn = "encode" /\ call.done
  /\ call.args = [base_name |-> PyStr("Model"), number |-> PyInt(3),
                  variation |-> PyStr("b"), fold_number |-> PyInt(2)]
  /\ call.result = Returned("Model_03.b-02")

\* C7: decoding the text N or N.V of a number and a variation, or the
\* number itself, returns that number and that variation.
C7_DecodeRecoversNumberAndVariation ==
  (call.fn \in {"decode_text", "decode_integer"} /\ call.done)
    => call.result = NumberAndVariation(call.args.number, call.args.variation)

\* Natural number k in decimal, zero-padded to w digits.
RECURSIVE ZeroPadded(_, _)
ZeroPadded(k, w) == IF Len(Dec(k)) >= w THEN Dec(k) ELSE "0" \o ZeroPadded(k, w - 1)

\* C8: with the directory and the extension stripped, a name with fewer
\* than two underscores fails with MalformedFilename; otherwise, when the
\* call returns, the code is all that follows the second underscore, the
\* date of the timestamp is the first segment and its time the first six
\* digits of the second segment, read as HHMMSS.
C8_DecodeFilenameSplitsTwice ==
  (call.fn = "decode_filename" /\ call.done)
    => LET stem == SplitExtRoot(PathTail(call.args.filename))
           us   == {i \in 1..Len(stem) : CharAt(stem, i) = "_"}
           r    == call.result
       IN  IF Cardinality(us) < 2 THEN r.raised = "MalformedFilename"
           ELSE LET i  == CHOOSE x \in us : \A y \in us : x <= y
                    j  == CHOOSE x \in us \ {i} : \A y \in us \ {i} : x <= y
                    ts == r.timestamp
                IN  r.raised = "none"
                      => /\ r.code = SubSeq(stem, j + 1, Len(stem))
                         /\ SubSeq(stem, 1, i - 1)
                              \in {ZeroPadded(ts.year, 4) \o ZeroPadded(ts.month, 2)
                                     \o ZeroPadded(ts.day, 2),
                                   ZeroPadded(ts.year, 4) \o "-"
                                     \o ZeroPadded(ts.month, 2) \o "-"
                                     \o ZeroPadded(ts.day, 2)}
                         /\ j - i > 6
                         /\ SubSeq(stem, i + 1, i + 6)
                              = ZeroPadded(ts.hour, 2) \o ZeroPadded(ts.minute, 2)
                                  \o ZeroPadded(ts.second, 2)

\* C8 witness: decode_filename("20240115_093000_Model_03.json") returns the
\* code "Model_03" and 2024-01-15T09:30:00.
C8_DecodedModel03 ==
  /\ call.fn = "decode_filename" /\ call.done
  /\ call.args.filename = "20240115_093000_Model_03.json"
  /\ call.result.raised = "none"
  /\ call.result.code = "Model_03"
  /\ call.result.timestamp
       = [ok |-> TRUE, year |-> 2024, month |-> 1, day |-> 15,
          hour |-> 9, minute |-> 30, second |-> 0]

\* C9: in assign(m), Experiment.BaseName becomes m[ModelName] exactly when
\* it is null once m's keys are copied in and m has ModelName; otherwise
\* ModelName leaves it alone.  The DatasetName suffix is then appended to
\* whichever base name results.
C9_ModelNameIsOnlyADefault ==
  [][op'.name = "assign"
       => LET m    == op'.args.config_dict
              base == BaseAfterDefaulting(cfg, m)
          IN  IF "DatasetName" \in DOMAIN m
              THEN base.t = "str"
                     => cfg'["Experiment.BaseName"]
                          = PyStr(base.s \o "_" \o m["DatasetName"].s)
              ELSE cfg'["Experiment.BaseName"] = base]_vars

\* C9 witness: assign of a mapping that nulls the base name and gives
\* ModelName "N" and DatasetName "D" leaves the base name "N_D".
C9_DefaultedThenAppended ==
  /\ op.name = "assign" /\ op.raised = "none"
  /\ "Experiment.BaseName" \in DOMAIN op.args.config_dict
  /\ op.args.config_dict["Experiment.BaseName"] = PyNone
  /\ "ModelName" \in DOMAIN op.args.config_dict
  /\ "DatasetName" \in DOMAIN op.args.config_dict
  /\ cfg["Experiment.BaseName"] = PyStr("N_D")

\* C10: assign(m) with DatasetName in m and a base name still null after
\* the copy and the defaulting raises TypeMismatch, with every key of m
\* copied into the container, the keys m lacks kept, and the base name
\* null.
C10_FailedAssignKeepsCopiedKeys ==
  [][(/\ op'.name = "assign"
      /\ "DatasetName" \in DOMAIN op'.args.config_dict
      /\ BaseAfterDefaulting(cfg, op'.args.config_dict) = PyNone)
       => LET m == op'.args.config_dict
          IN  /\ op'.raised = "TypeMismatch"
              /\ DOMAIN cfg' = DOMAIN cfg \cup DOMAIN m
              /\ \A k \in DOMAIN m : cfg'[k] = m[k]
              /\ \A k \in DOMAIN cfg \ DOMAIN m : cfg'[k] = cfg[k]
              /\ cfg'["Experiment.BaseName"] = PyNone]_vars

\* C10 witness: a container without a base name after the failed
\* assign({DatasetName: "D", Epochs: 5}), both keys in it.
C10_PartlyMerged ==
  /\ op.name = "assign" /\ op.raised = "TypeMismatch"
  /\ DOMAIN op.args.config_dict = {"DatasetName", "Epochs"}
  /\ cfg["Experiment.BaseName"] = PyNone
  /\ DOMAIN cfg = {"Experiment.BaseName", "DatasetName", "Epochs"}
  /\ cfg["Epochs"] = PyInt(5)

====
